---- MODULE Spec2Model ----
(***************************************************************************)
(* FLO: signed markup rendered by a client runtime.                        *)
(*                                                                         *)
(* Producer (server.js): compileFLOtoHTML, signString, buildShell.         *)
(* Consumer (public/runtime.js, three revisions): pemToArrayBuffer,        *)
(* importPublicKey, verifySignature, clientCompileFLO and the main flow.   *)
(*                                                                         *)
(* Text is a sequence of code points (JS string code units); bytes are a   *)
(* sequence of 0..255.  String literals of the source are written as       *)
(* tuples of code points with the text in a comment.                       *)
(***************************************************************************)
EXTENDS Integers, Sequences, FiniteSets, TLC

VARIABLES
  \* ---- compiler harness (pure functions applied to drawn inputs)
  csrc,        \* the FLO source handed to the compilers
  cctx,        \* the context bindings (name -> string value)
  cdone,       \* which compilers have run
  cout,        \* compiler name -> its output
  \* ---- rule-order harness
  ocur,        \* text after the tag groups applied so far
  orest,       \* tag groups not applied yet
  okept,       \* every step so far kept code order across page/card/link
  oswapped,    \* some step ran before a tag that precedes it in code order
  \* ---- producer, transport and consumer pipeline
  pc,          \* position of the producer / transport / runtime flow
  doc,         \* the document the producer serves (code points)
  payloadEl,   \* #flo-payload: present, and its text (base64 characters)
  sigEl,       \* #flo-signature: present, and the signature it carries
  pubPemEl,    \* #flo-public-pem: present, and the key material it carries
  tampers,     \* number of changes the transport made to the triple
  floSource,   \* the runtime's decoded source
  awaited,     \* settlement of the promise the flow is suspended on
  publicKey,   \* the imported key
  enc,         \* the bytes handed to crypto.subtle.verify
  ok,          \* result of verifySignature: "pending", "true", "false", "threw"
  html,        \* result of clientCompileFLO
  fragment,    \* Array.from(temp.content.childNodes)
  pending,     \* the nodes of fragment not yet appended
  body,        \* children of document.body
  calls,       \* atob / importKey / verify / compile calls made, in order
  failure      \* what console or the flow knows of the failure, "none" if none

cvars == <<csrc, cctx, cdone, cout>>
ovars == <<ocur, orest, okept, oswapped>>
pvars == <<pc, doc, payloadEl, sigEl, pubPemEl, tampers, floSource, awaited,
           publicKey, enc, ok, html, fragment, pending, body, calls, failure>>
vars == <<cvars, ovars, pvars>>

-----------------------------------------------------------------------------
(* String literals of the source files *)

Empty == <<>>
LBraces == <<123, 123>>  \* {{
RBraces == <<125, 125>>  \* }}
Quote == <<34>>  \* "
Gt == <<62>>  \* >
QuoteGt == <<34, 62>>  \* ">
TitleAttr == <<116, 105, 116, 108, 101, 61, 34>>  \* title="
FloPage == <<60, 102, 108, 111, 58, 112, 97, 103, 101>>  \* <flo:page
DivPage == <<60, 100, 105, 118, 32, 99, 108, 97, 115, 115, 61, 34, 102, 108, 111, 45, 112, 97, 103, 101, 34, 32, 100, 97, 116, 97, 45, 116, 105, 116, 108, 101, 61, 34>>  \* <div class="flo-page" data-title="
FloPageClose == <<60, 47, 102, 108, 111, 58, 112, 97, 103, 101, 62>>  \* </flo:page>
DivClose == <<60, 47, 100, 105, 118, 62>>  \* </div>
FloHeader == <<60, 102, 108, 111, 58, 104, 101, 97, 100, 101, 114, 62>>  \* <flo:header>
Header == <<60, 104, 101, 97, 100, 101, 114, 32, 99, 108, 97, 115, 115, 61, 34, 102, 108, 111, 45, 104, 101, 97, 100, 101, 114, 34, 62>>  \* <header class="flo-header">
FloHeaderClose == <<60, 47, 102, 108, 111, 58, 104, 101, 97, 100, 101, 114, 62>>  \* </flo:header>
HeaderClose == <<60, 47, 104, 101, 97, 100, 101, 114, 62>>  \* </header>
FloNav == <<60, 102, 108, 111, 58, 110, 97, 118, 62>>  \* <flo:nav>
Nav == <<60, 110, 97, 118, 32, 99, 108, 97, 115, 115, 61, 34, 102, 108, 111, 45, 110, 97, 118, 34, 62>>  \* <nav class="flo-nav">
FloNavClose == <<60, 47, 102, 108, 111, 58, 110, 97, 118, 62>>  \* </flo:nav>
NavClose == <<60, 47, 110, 97, 118, 62>>  \* </nav>
FloLogo == <<60, 102, 108, 111, 58, 108, 111, 103, 111, 62>>  \* <flo:logo>
DivLogo == <<60, 100, 105, 118, 32, 99, 108, 97, 115, 115, 61, 34, 102, 108, 111, 45, 108, 111, 103, 111, 34, 62>>  \* <div class="flo-logo">
FloLogoClose == <<60, 47, 102, 108, 111, 58, 108, 111, 103, 111, 62>>  \* </flo:logo>
FloMain == <<60, 102, 108, 111, 58, 109, 97, 105, 110, 62>>  \* <flo:main>
Main == <<60, 109, 97, 105, 110, 32, 99, 108, 97, 115, 115, 61, 34, 102, 108, 111, 45, 109, 97, 105, 110, 34, 62>>  \* <main class="flo-main">
FloMainClose == <<60, 47, 102, 108, 111, 58, 109, 97, 105, 110, 62>>  \* </flo:main>
MainClose == <<60, 47, 109, 97, 105, 110, 62>>  \* </main>
FloCard == <<60, 102, 108, 111, 58, 99, 97, 114, 100>>  \* <flo:card
SectionCard == <<60, 115, 101, 99, 116, 105, 111, 110, 32, 99, 108, 97, 115, 115, 61, 34, 102, 108, 111, 45, 99, 97, 114, 100, 34, 32, 100, 97, 116, 97, 45, 116, 105, 116, 108, 101, 61, 34>>  \* <section class="flo-card" data-title="
FloCardClose == <<60, 47, 102, 108, 111, 58, 99, 97, 114, 100, 62>>  \* </flo:card>
SectionClose == <<60, 47, 115, 101, 99, 116, 105, 111, 110, 62>>  \* </section>
FloFooter == <<60, 102, 108, 111, 58, 102, 111, 111, 116, 101, 114, 62>>  \* <flo:footer>
Footer == <<60, 102, 111, 111, 116, 101, 114, 32, 99, 108, 97, 115, 115, 61, 34, 102, 108, 111, 45, 102, 111, 111, 116, 101, 114, 34, 62>>  \* <footer class="flo-footer">
FloFooterClose == <<60, 47, 102, 108, 111, 58, 102, 111, 111, 116, 101, 114, 62>>  \* </flo:footer>
FooterClose == <<60, 47, 102, 111, 111, 116, 101, 114, 62>>  \* </footer>
FloLinkHref == <<60, 102, 108, 111, 58, 108, 105, 110, 107, 32, 104, 114, 101, 102, 61, 34>>  \* <flo:link href="
FloLinkClose == <<60, 47, 102, 108, 111, 58, 108, 105, 110, 107, 62>>  \* </flo:link>
AHref == <<60, 97, 32, 104, 114, 101, 102, 61, 34>>  \* <a href="
ClassLink == <<34, 32, 99, 108, 97, 115, 115, 61, 34, 102, 108, 111, 45, 108, 105, 110, 107, 34, 62>>  \* " class="flo-link">
AClose == <<60, 47, 97, 62>>  \* </a>

-----------------------------------------------------------------------------
(* Character classes of the regular expressions *)

\* [a-zA-Z0-9_]
IdentChars == (48..57) \cup (65..90) \cup (97..122) \cup {95}

\* \s : WhiteSpace and LineTerminator code points
SpaceChars == {9, 10, 11, 12, 13, 32, 160, 5760, 8232, 8233, 8239, 8287, 12288, 65279}
                 \cup (8192..8202)

\* what . does not match: LineTerminator
LineTerminators == {10, 13, 8232, 8233}

-----------------------------------------------------------------------------
(* String.prototype.replace with a /g regular expression *)

\* the literal lit occurs in s at index i
StartsWithAt(s, i, lit) ==
  /\ i >= 1
  /\ i + Len(lit) - 1 <= Len(s)
  /\ SubSeq(s, i, i + Len(lit) - 1) = lit

\* lit occurs somewhere in s
Contains(s, lit) == \E i \in 1..Len(s) : StartsWithAt(s, i, lit)

\* least element of a non-empty set of indices
Least(S) == CHOOSE x \in S : \A y \in S : x <= y

\* index just past the longest run, starting at i, of characters in class
RunEndIn(s, i, class) ==
  LET stop == {j \in i..Len(s) : s[j] \notin class}
  IN  IF stop # {} THEN Least(stop) ELSE IF i > Len(s) THEN i ELSE Len(s) + 1

\* index just past the longest run, starting at i, of characters other than c
RunEndNot(s, i, c) ==
  LET stop == {j \in i..Len(s) : s[j] = c}
  IN  IF stop # {} THEN Least(stop) ELSE IF i > Len(s) THEN i ELSE Len(s) + 1

NoMatch(i) == [hit |-> FALSE, next |-> i, rep |-> Empty]

\* Left-to-right scan of a global replace from index i: m[j] is the match
\* attempt at index j.  The text up to the first index that matches is copied,
\* the match is replaced, and the scan resumes after the match.  No pattern
\* here matches the empty string.
RECURSIVE GlobalReplace(_, _, _)
GlobalReplace(s, m, i) ==
  LET hits == {j \in i..Len(s) : m[j].hit}
  IN  IF hits = {} THEN SubSeq(s, i, Len(s))
      ELSE CHOOSE r \in
             {SubSeq(s, i, j - 1) \o m[j].rep \o GlobalReplace(s, m, m[j].next) :
                j \in {Least(hits)}} : TRUE

\* .replace(/<literal>/g, rep)
ReplaceLiteral(s, pat, rep) ==
  GlobalReplace(s,
    [i \in 1..Len(s) |->
       IF StartsWithAt(s, i, pat)
       THEN [hit |-> TRUE, next |-> i + Len(pat), rep |-> rep]
       ELSE NoMatch(i)],
    1)

\* /\{\{\s*([a-zA-Z0-9_]+)\s*\}\}/ tried at index i; name is capture 1.
\* The three runs are over disjoint classes, so the greedy choice is the only one.
PlaceholderAt(s, i) ==
  LET a == RunEndIn(s, i + 2, SpaceChars)
      b == RunEndIn(s, a, IdentChars)
      c == RunEndIn(s, b, SpaceChars)
  IN  IF StartsWithAt(s, i, LBraces) /\ b > a /\ StartsWithAt(s, c, RBraces)
      THEN [hit |-> TRUE, next |-> c + 2, name |-> SubSeq(s, a, b - 1)]
      ELSE [hit |-> FALSE, next |-> i, name |-> Empty]

\* title="([^"]+)"[^>]*> tried at index t; open is the replacement's text before $1
TitledTailAt(s, t, open) ==
  LET v == t + Len(TitleAttr)
      q == RunEndNot(s, v, Quote[1])
      g == RunEndNot(s, q + 1, Gt[1])
  IN  IF StartsWithAt(s, t, TitleAttr) /\ q > v /\ q <= Len(s) /\ g <= Len(s)
      THEN [hit |-> TRUE, next |-> g + 1, rep |-> open \o SubSeq(s, v, q - 1) \o QuoteGt]
      ELSE NoMatch(t)

\* /<flo:TAG[^>]*title="([^"]+)"[^>]*>/ tried at index i.  The first [^>]* is
\* greedy: it takes the longest run that still lets the rest match.
TitledAt(s, i, tag, open) ==
  LET p == i + Len(tag)
      n == RunEndNot(s, p, Gt[1])
      T == {t \in p..n : TitledTailAt(s, t, open).hit}
  IN  IF StartsWithAt(s, i, tag) /\ T # {}
      THEN TitledTailAt(s, CHOOSE t \in T : \A u \in T : u <= t, open)
      ELSE NoMatch(i)

\* /<flo:link href="([^"]+)"[^>]*>(.*?)<\/flo:link>/ tried at index i.
\* (.*?) is lazy and stops at the first </flo:link>; . matches no line terminator.
LinkAt(s, i) ==
  LET v == i + Len(FloLinkHref)
      q == RunEndNot(s, v, Quote[1])
      g == RunEndNot(s, q + 1, Gt[1])
      E == {x \in (g + 1)..Len(s) : StartsWithAt(s, x, FloLinkClose)}
      e == Least(E)
  IN  IF /\ StartsWithAt(s, i, FloLinkHref) /\ q > v /\ q <= Len(s) /\ g <= Len(s)
         /\ E # {}
         /\ \A k \in (g + 1)..(e - 1) : s[k] \notin LineTerminators
      THEN [hit |-> TRUE, next |-> e + Len(FloLinkClose),
            rep |-> AHref \o SubSeq(s, v, q - 1) \o ClassLink
                      \o SubSeq(s, g + 1, e - 1) \o AClose]
      ELSE NoMatch(i)

\* one .replace(...) call of the structural chain
ApplyRule(r, s) ==
  CASE r.kind = "literal" -> ReplaceLiteral(s, r.pat, r.rep)
    [] r.kind = "titled"  ->
         GlobalReplace(s, [i \in 1..Len(s) |-> TitledAt(s, i, r.pat, r.rep)], 1)
    [] r.kind = "link"    ->
         GlobalReplace(s, [i \in 1..Len(s) |-> LinkAt(s, i)], 1)

\* the calls of a chain, in the order given: each call's result is the next
\* call's receiver
RECURSIVE ApplyRules(_, _)
ApplyRules(rules, s) ==
  IF rules = <<>> THEN s
  ELSE CHOOSE r \in {ApplyRules(Tail(rules), t) : t \in {ApplyRule(Head(rules), s)}} : TRUE

Rule(tag, kind, pat, rep) == [tag |-> tag, kind |-> kind, pat |-> pat, rep |-> rep]

-----------------------------------------------------------------------------
(* The structural chains, one table per source file, in the order of the calls *)

\* server.js compileFLOtoHTML: the fifteen .replace calls after the interpolation
ServerRules ==
  << Rule("page",   "titled",  FloPage,        DivPage),
     Rule("page",   "literal", FloPageClose,   DivClose),
     Rule("header", "literal", FloHeader,      Header),
     Rule("header", "literal", FloHeaderClose, HeaderClose),
     Rule("nav",    "literal", FloNav,         Nav),
     Rule("nav",    "literal", FloNavClose,    NavClose),
     Rule("logo",   "literal", FloLogo,        DivLogo),
     Rule("logo",   "literal", FloLogoClose,   DivClose),
     Rule("main",   "literal", FloMain,        Main),
     Rule("main",   "literal", FloMainClose,   MainClose),
     Rule("card",   "titled",  FloCard,        SectionCard),
     Rule("card",   "literal", FloCardClose,   SectionClose),
     Rule("footer", "literal", FloFooter,      Footer),
     Rule("footer", "literal", FloFooterClose, FooterClose),
     Rule("link",   "link",    FloLinkHref,    Empty) >>

\* runtime.js (first revision) clientCompileFLO
Client1Rules ==
  << Rule("page",   "titled",  FloPage,        DivPage),
     Rule("page",   "literal", FloPageClose,   DivClose),
     Rule("header", "literal", FloHeader,      Header),
     Rule("header", "literal", FloHeaderClose, HeaderClose),
     Rule("nav",    "literal", FloNav,         Nav),
     Rule("nav",    "literal", FloNavClose,    NavClose),
     Rule("logo",   "literal", FloLogo,        DivLogo),
     Rule("logo",   "literal", FloLogoClose,   DivClose),
     Rule("main",   "literal", FloMain,        Main),
     Rule("main",   "literal", FloMainClose,   MainClose),
     Rule("card",   "titled",  FloCard,        SectionCard),
     Rule("card",   "literal", FloCardClose,   SectionClose),
     Rule("footer", "literal", FloFooter,      Footer),
     Rule("footer", "literal", FloFooterClose, FooterClose),
     Rule("link",   "link",    FloLinkHref,    Empty) >>

\* runtime.js (CSP revision) clientCompileFLO
Client12Rules ==
  << Rule("page",   "titled",  FloPage,        DivPage),
     Rule("page",   "literal", FloPageClose,   DivClose),
     Rule("header", "literal", FloHeader,      Header),
     Rule("header", "literal", FloHeaderClose, HeaderClose),
     Rule("nav",    "literal", FloNav,         Nav),
     Rule("nav",    "literal", FloNavClose,    NavClose),
     Rule("logo",   "literal", FloLogo,        DivLogo),
     Rule("logo",   "literal", FloLogoClose,   DivClose),
     Rule("main",   "literal", FloMain,        Main),
     Rule("main",   "literal", FloMainClose,   MainClose),
     Rule("card",   "titled",  FloCard,        SectionCard),
     Rule("card",   "literal", FloCardClose,   SectionClose),
     Rule("footer", "literal", FloFooter,      Footer),
     Rule("footer", "literal", FloFooterClose, FooterClose),
     Rule("link",   "link",    FloLinkHref,    Empty) >>

\* runtime.js (compact revision) clientCompileFLO
Client123Rules ==
  << Rule("page",   "titled",  FloPage,        DivPage),
     Rule("page",   "literal", FloPageClose,   DivClose),
     Rule("header", "literal", FloHeader,      Header),
     Rule("header", "literal", FloHeaderClose, HeaderClose),
     Rule("nav",    "literal", FloNav,         Nav),
     Rule("nav",    "literal", FloNavClose,    NavClose),
     Rule("logo",   "literal", FloLogo,        DivLogo),
     Rule("logo",   "literal", FloLogoClose,   DivClose),
     Rule("main",   "literal", FloMain,        Main),
     Rule("main",   "literal", FloMainClose,   MainClose),
     Rule("card",   "titled",  FloCard,        SectionCard),
     Rule("card",   "literal", FloCardClose,   SectionClose),
     Rule("footer", "literal", FloFooter,      Footer),
     Rule("footer", "literal", FloFooterClose, FooterClose),
     Rule("link",   "link",    FloLinkHref,    Empty) >>

-----------------------------------------------------------------------------
(* Interpolation.  A context is a function from names to string values. *)

\* (_, v) => context[v] || ''   : the empty string is falsy
ServerLookup(context, v) ==
  IF v \in DOMAIN context /\ context[v] # Empty THEN context[v] ELSE Empty

\* (_, v) => context[v] !== undefined ? String(context[v]) : ''
Client1Lookup(context, v) ==
  IF v \in DOMAIN context THEN context[v] ELSE Empty

\* Client12Lookup without the undefined test: String(context[v]) of an unbound
\* name is the text "undefined"
Client12LookupNoUndefinedTest(context, v) ==
  IF v \in DOMAIN context THEN context[v]
  ELSE <<117, 110, 100, 101, 102, 105, 110, 101, 100>>  \* undefined

\* (_, v) => context[v] !== undefined ? String(context[v]) : ''
Client12Lookup(context, v) ==
  IF v \in DOMAIN context THEN context[v] ELSE Empty

\* (_, v) => context[v] || ''
Client123Lookup(context, v) ==
  IF v \in DOMAIN context /\ context[v] # Empty THEN context[v] ELSE Empty

\* .replace(/\{\{\s*([a-zA-Z0-9_]+)\s*\}\}/g, callback): one pass over the
\* source; what the callback returns is copied, never scanned again.
Interpolate(s, callback) ==
  GlobalReplace(s,
    [i \in 1..Len(s) |->
       LET m == PlaceholderAt(s, i)
       IN  [hit |-> m.hit, next |-> m.next,
            rep |-> IF m.hit THEN callback[i] ELSE Empty]],
    1)

\* The name captured by the placeholder that starts at position i
Captured(s, i) == PlaceholderAt(s, i).name

compileFLOtoHTML(floSrc, context) ==
  LET callback == [i \in 1..Len(floSrc) |-> ServerLookup(context, Captured(floSrc, i))]
  IN  CHOOSE r \in {ApplyRules(ServerRules, t) : t \in {Interpolate(floSrc, callback)}} : TRUE

clientCompileFLO1(src, context) ==
  LET callback == [i \in 1..Len(src) |-> Client1Lookup(context, Captured(src, i))]
  IN  CHOOSE r \in {ApplyRules(Client1Rules, t) : t \in {Interpolate(src, callback)}} : TRUE

clientCompileFLO12(src, context) ==
  LET callback == [i \in 1..Len(src) |-> Client12Lookup(context, Captured(src, i))]
  IN  CHOOSE r \in {ApplyRules(Client12Rules, t) : t \in {Interpolate(src, callback)}} : TRUE

clientCompileFLO123(src, context) ==
  LET callback == [i \in 1..Len(src) |-> Client123Lookup(context, Captured(src, i))]
  IN  CHOOSE r \in {ApplyRules(Client123Rules, t) : t \in {Interpolate(src, callback)}} : TRUE

-----------------------------------------------------------------------------
(* Inputs of the harnesses *)

NameUser == <<117, 115, 101, 114>>  \* user
NameX == <<120>>  \* x
Scholar == <<83, 99, 104, 111, 108, 97, 114>>  \* Scholar
Ada == <<65, 100, 97>>  \* Ada
PlaceholderUser == <<123, 123, 117, 115, 101, 114, 125, 125>>  \* {{user}}
PlaceholderSpacedX == <<123, 123, 32, 120, 32, 125, 125>>  \* {{ x }}
PlaceholderX == <<123, 123, 120, 125, 125>>  \* {{x}}
FloPageBare == <<60, 102, 108, 111, 58, 112, 97, 103, 101, 62>>  \* <flo:page>
FloPageTitle == <<60, 102, 108, 111, 58, 112, 97, 103, 101, 32, 116, 105, 116, 108, 101, 61, 34>>  \* <flo:page title="
LetterT == <<84>>  \* T

\* longest source, in fragments, drawn for the compilers
MaxFrags == 2
\* longest source, in fragments, drawn for the rule-order harness
MaxOrderFrags == 3

RECURSIVE Flatten(_)
Flatten(parts) == IF parts = <<>> THEN Empty ELSE Head(parts) \o Flatten(Tail(parts))

\* every concatenation of at most n of the fragments
Texts(frags, n) == {Flatten(f) : f \in UNION {[1..k -> frags] : k \in 0..n}}

CFragments ==
  {PlaceholderUser, PlaceholderSpacedX, FloPageBare, FloPageClose, FloPageTitle,
   QuoteGt, FloHeader, LetterT}

NoBindings == [n \in {} |-> Empty]

Contexts ==
  { NoBindings,
    (NameUser :> Ada),
    (NameUser :> Empty),
    (NameUser :> FloHeader),
    (NameUser :> PlaceholderX) @@ (NameX :> Ada) }

OFragments == {FloPageTitle, FloNav, QuoteGt, FloHeader}

-----------------------------------------------------------------------------
(* Compiler harness: the four compilers applied to one drawn input *)

Compilers == {"server", "client1", "client12", "client123"}

CIdle ==
  /\ csrc = Empty /\ cctx = NoBindings /\ cdone = {}
  /\ cout = [n \in Compilers |-> Empty]

OIdle == ocur = Empty /\ orest = {} /\ okept = TRUE /\ oswapped = FALSE

Ran(n, out) ==
  /\ n \notin cdone
  /\ cdone' = cdone \cup {n}
  /\ cout' = [cout EXCEPT ![n] = out]
  /\ UNCHANGED <<csrc, cctx, ovars, pvars>>

ServerCompile == Ran("server", compileFLOtoHTML(csrc, cctx))
Client1Compile == Ran("client1", clientCompileFLO1(csrc, cctx))
Client12Compile == Ran("client12", clientCompileFLO12(csrc, cctx))
Client123Compile == Ran("client123", clientCompileFLO123(csrc, cctx))

CNext == ServerCompile \/ Client1Compile \/ Client12Compile \/ Client123Compile

-----------------------------------------------------------------------------
(* Rule-order harness: the tag groups of the chain applied one at a time in
   any order *)

Tags == {"page", "header", "nav", "logo", "main", "card", "footer", "link"}

\* tags whose opening rule captures an attribute value or inline text
CapturingTags == {"page", "card", "link"}

\* the .replace calls of one tag, in code order
TagRules(rules, tag) == SelectSeq(rules, LAMBDA r : r.tag = tag)

\* position of a tag's first call in the chain
TagPos(rules, tag) == Least({i \in 1..Len(rules) : rules[i].tag = tag})

\* StructuralSubstitution with the two nav calls left out
StructuralSubstitutionNoNav(s) ==
  ApplyRules(SelectSeq(Client12Rules, LAMBDA r : r.tag # "nav"), s)

\* the structural chain of clientCompileFLO, code order
StructuralSubstitution(s) == ApplyRules(Client12Rules, s)

ApplyTag(tag) ==
  /\ tag \in orest
  /\ ocur' = ApplyRules(TagRules(Client12Rules, tag), ocur)
  /\ orest' = orest \ {tag}
  /\ LET earlier == {h \in orest :
                       TagPos(Client12Rules, h) < TagPos(Client12Rules, tag)}
     IN  /\ oswapped' = (oswapped \/ earlier # {})
         /\ okept' = (okept /\ (earlier # {} =>
                                  (earlier \cup {tag}) \cap CapturingTags = {}))
  /\ UNCHANGED <<csrc, cctx, cdone, cout, pvars>>

ONext == \E tag \in Tags : ApplyTag(tag)

-----------------------------------------------------------------------------
(* Encodings of the transport *)

\* the base64 alphabet: A-Z a-z 0-9 + /
B64Char(v) ==
  IF v < 26 THEN 65 + v
  ELSE IF v < 52 THEN 71 + v
  ELSE IF v < 62 THEN v - 4
  ELSE IF v = 62 THEN 43 ELSE 47

B64Value(c) == CHOOSE v \in 0..63 : B64Char(v) = c

B64Alphabet == {B64Char(v) : v \in 0..63}

PadChar == <<61>>  \* =

\* Buffer.from(...).toString('base64'): three bytes to four characters, padded
RECURSIVE Base64Encode(_)
Base64Encode(b) ==
  IF Len(b) = 0 THEN Empty
  ELSE IF Len(b) = 1 THEN
    <<B64Char(b[1] \div 4), B64Char((b[1] % 4) * 16)>> \o PadChar \o PadChar
  ELSE IF Len(b) = 2 THEN
    <<B64Char(b[1] \div 4), B64Char(((b[1] % 4) * 16) + (b[2] \div 16)),
      B64Char((b[2] % 16) * 4)>> \o PadChar
  ELSE
    <<B64Char(b[1] \div 4), B64Char(((b[1] % 4) * 16) + (b[2] \div 16)),
      B64Char(((b[2] % 16) * 4) + (b[3] \div 64)), B64Char(b[3] % 64)>>
      \o Base64Encode(SubSeq(b, 4, Len(b)))

\* the sextets of a whole base64 text to bytes; leftover bits are discarded
RECURSIVE DecodeSextets(_)
DecodeSextets(v) ==
  IF Len(v) < 2 THEN Empty
  ELSE IF Len(v) = 2 THEN <<(v[1] * 4) + (v[2] \div 16)>>
  ELSE IF Len(v) = 3 THEN <<(v[1] * 4) + (v[2] \div 16), ((v[2] % 16) * 16) + (v[3] \div 4)>>
  ELSE <<(v[1] * 4) + (v[2] \div 16), ((v[2] % 16) * 16) + (v[3] \div 4),
         ((v[3] % 4) * 64) + v[4]>> \o DecodeSextets(SubSeq(v, 5, Len(v)))

\* atob(data): forgiving-base64 decode.  ASCII whitespace is removed, one or
\* two trailing = of a length that is a multiple of four are removed, and a
\* length of 1 mod 4 or a character outside the alphabet throws.  The result
\* is a binary string: one code unit, 0..255, per decoded byte.
atob(data) ==
  LET d1 == SelectSeq(data, LAMBDA c : c \notin {9, 10, 12, 13, 32})
      n1 == Len(d1)
      d2 == IF n1 % 4 = 0 /\ n1 >= 2 /\ SubSeq(d1, n1 - 1, n1) = PadChar \o PadChar
              THEN SubSeq(d1, 1, n1 - 2)
            ELSE IF n1 % 4 = 0 /\ n1 >= 1 /\ d1[n1] = PadChar[1]
              THEN SubSeq(d1, 1, n1 - 1)
            ELSE d1
  IN  IF Len(d2) % 4 = 1 \/ \E i \in 1..Len(d2) : d2[i] \notin B64Alphabet
      THEN [threw |-> TRUE, value |-> Empty]
      ELSE [threw |-> FALSE,
            value |-> DecodeSextets([i \in 1..Len(d2) |-> B64Value(d2[i])])]

\* UTF-8 of one code point of the Basic Multilingual Plane; a lone surrogate
\* is encoded as U+FFFD
Utf8Char(c) ==
  IF c < 128 THEN <<c>>
  ELSE IF c < 2048 THEN <<192 + (c \div 64), 128 + (c % 64)>>
  ELSE IF c \in 55296..57343 THEN <<239, 191, 189>>
  ELSE <<224 + (c \div 4096), 128 + ((c \div 64) % 64), 128 + (c % 64)>>

\* new TextEncoder().encode(str), and Node's 'utf8' encoding of a string
Utf8Encode(str) == Flatten([i \in 1..Len(str) |-> Utf8Char(str[i])])

\* String.prototype.trim
Trim(s) ==
  LET keep == {i \in 1..Len(s) : s[i] \notin SpaceChars}
  IN  IF keep = {} THEN Empty
      ELSE SubSeq(s, Least(keep), CHOOSE x \in keep : \A y \in keep : y <= x)

-----------------------------------------------------------------------------
(* Producer: server.js *)

\* the key pair loaded at start-up; the public PEM is well-formed base64
\* wrapping well-formed SPKI of the same key
PRIVATE_PEM == "server-key"
PUBLIC_PEM == [b64 |-> TRUE, spki |-> TRUE, key |-> "server-key"]

\* signer.update(str, 'utf8'); signer.sign(privatePem, 'base64').  RSASSA-PKCS1-v1_5
\* over SHA-256 is taken as an ideal signature: it names the key and the bytes.
signString(privatePem, str) ==
  [b64 |-> TRUE, key |-> privatePem, msg |-> Utf8Encode(str)]

\* the three script elements buildShell embeds
buildShell(floSrc) ==
  [payload |-> Base64Encode(Utf8Encode(floSrc)),
   signature |-> signString(PRIVATE_PEM, floSrc),
   pem |-> PUBLIC_PEM]

-----------------------------------------------------------------------------
(* Consumer helpers: runtime.js *)

\* crypto.subtle.verify('RSASSA-PKCS1-v1_5', publicKey, sigBytes, enc)
SubtleVerify(key, sig, bytes) == sig.key = key /\ sig.msg = bytes

Node(kind, n) == [kind |-> kind, n |-> n]
MissingPlaceholder == Node("pre: FLO runtime: missing payload or signature or public key.", 0)
IntegrityPlaceholder == Node("pre: FLO integrity check failed. Rendering aborted.", 0)
RuntimeErrorPlaceholder == Node("pre: FLO runtime error: see console.", 0)
SuccessNote == Node("div.flo-note: FLO verified", 0)
ErrorPlaceholders == {MissingPlaceholder, IntegrityPlaceholder, RuntimeErrorPlaceholder}

\* what getElementById returns: the element with its content, or null
Element(content) == [present |-> TRUE, content |-> content]
Null(content) == [present |-> FALSE, content |-> content]

\* the runtime's context: { user: 'Scholar' }
RuntimeContext == (NameUser :> Scholar)

NoKey == "no-key"
Pending == [state |-> "pending", value |-> "none"]
Fulfilled(v) == [state |-> "fulfilled", value |-> v]
Rejected(why) == [state |-> "rejected", value |-> why]

-----------------------------------------------------------------------------
(* Inputs of the pipeline *)

\* longest drawn document and longest substituted payload, in characters / bytes
MaxDocLen == 1
\* most changes the transport makes to one triple
MaxTampers == 1
\* most child nodes the template parser yields
MaxNodes == 2

DocChars == {65, 233}  \* A, e-acute (U+00E9)
SampleDoc == FloNav \o PlaceholderUser \o FloNavClose  \* <flo:nav>{{user}}</flo:nav>
Docs == UNION {[1..k -> DocChars] : k \in 0..MaxDocLen} \cup {SampleDoc}

TamperBytes == {65, 233, 195}
TamperPayloads == UNION {[1..k -> TamperBytes] : k \in 0..MaxDocLen}

ElementNames == {"payload", "signature", "pem"}

PIdle ==
  /\ pc = "idle" /\ doc = Empty /\ tampers = 0
  /\ payloadEl = Null(Empty)
  /\ sigEl = Null(signString(PRIVATE_PEM, Empty))
  /\ pubPemEl = Null(PUBLIC_PEM)
  /\ floSource = Empty /\ awaited = Pending /\ publicKey = NoKey /\ enc = Empty
  /\ ok = "pending" /\ html = Empty /\ fragment = <<>> /\ pending = <<>>
  /\ body = <<>> /\ calls = <<>> /\ failure = "none"

-----------------------------------------------------------------------------
(* Producer and transport *)

\* res.send(buildShell(floSource))
BuildShell ==
  /\ pc = "server"
  /\ LET shell == buildShell(doc)
     IN  /\ payloadEl' = Element(shell.payload)
         /\ sigEl' = Element(shell.signature)
         /\ pubPemEl' = Element(shell.pem)
  /\ pc' = "transit"
  /\ UNCHANGED <<doc, tampers, floSource, awaited, publicKey, enc, ok, html,
                 fragment, pending, body, calls, failure, cvars, ovars>>

Tamper(p, s, k) ==
  /\ pc = "transit"
  /\ tampers < MaxTampers
  /\ <<p, s, k>> # <<payloadEl, sigEl, pubPemEl>>
  /\ payloadEl' = p /\ sigEl' = s /\ pubPemEl' = k
  /\ tampers' = tampers + 1
  /\ UNCHANGED <<pc, doc, floSource, awaited, publicKey, enc, ok, html,
                 fragment, pending, body, calls, failure, cvars, ovars>>

\* one of the three script elements does not arrive
DropElement ==
  \E e \in ElementNames :
    Tamper(IF e = "payload" THEN Null(payloadEl.content) ELSE payloadEl,
           IF e = "signature" THEN Null(sigEl.content) ELSE sigEl,
           IF e = "pem" THEN Null(pubPemEl.content) ELSE pubPemEl)

\* the payload is replaced by the base64 of other bytes
ReplacePayload ==
  \E b \in TamperPayloads :
    Tamper(Element(Base64Encode(b)), sigEl, pubPemEl)

\* an element's text stops being base64 (a "!" in the payload)
CorruptBase64 ==
  \E e \in ElementNames :
    Tamper(IF e = "payload" THEN [payloadEl EXCEPT !.content = @ \o <<33>>]
                            ELSE payloadEl,
           IF e = "signature" THEN [sigEl EXCEPT !.content.b64 = FALSE] ELSE sigEl,
           IF e = "pem" THEN [pubPemEl EXCEPT !.content.b64 = FALSE] ELSE pubPemEl)

\* the signature is replaced by one made with another key or over another document
ReplaceSignature ==
  \E s \in {signString("attacker-key", doc)}
             \cup {signString(PRIVATE_PEM, d) : d \in Docs} :
    Tamper(payloadEl, [sigEl EXCEPT !.content = s], pubPemEl)

\* the key material is replaced by another key, or by bytes that are no SPKI
ReplacePem ==
  \E k \in {[PUBLIC_PEM EXCEPT !.key = "attacker-key"],
            [PUBLIC_PEM EXCEPT !.spki = FALSE]} :
    Tamper(payloadEl, sigEl, [pubPemEl EXCEPT !.content = k])

\* the shell is loaded: the body holds the script elements that arrived, and
\* the deferred runtime script starts
Deliver ==
  /\ pc = "transit"
  /\ pc' = "start"
  /\ body' = SelectSeq(<<Node("script#flo-payload", IF payloadEl.present THEN 1 ELSE 0),
                         Node("script#flo-signature", IF sigEl.present THEN 1 ELSE 0),
                         Node("script#flo-public-pem", IF pubPemEl.present THEN 1 ELSE 0),
                         Node("script runtime.js", 1)>>,
                       LAMBDA nd : nd.n = 1)
  /\ UNCHANGED <<doc, payloadEl, sigEl, pubPemEl, tampers, floSource, awaited,
                 publicKey, enc, ok, html, fragment, pending, calls, failure,
                 cvars, ovars>>

-----------------------------------------------------------------------------
(* Consumer: the main runtime flow of runtime.js *)

shell == <<doc, payloadEl, sigEl, pubPemEl, tampers>>

\* CatchHandler appending the placeholder instead of assigning innerHTML
CatchHandlerAppends(err) ==
  /\ body' = Append(body, RuntimeErrorPlaceholder)
  /\ failure' = err
  /\ pc' = "aborted"

\* } catch (err) { console.error(...); document.body.innerHTML = '<pre ...>' }
CatchHandler(err) ==
  /\ body' = <<RuntimeErrorPlaceholder>>
  /\ failure' = err
  /\ pc' = "aborted"

\* getElementById x 3; if (!payloadEl || !sigEl || !pubPemEl) { ...; return; }
ElementsMissing == ~payloadEl.present \/ ~sigEl.present \/ ~pubPemEl.present

\* GetElements with the signature element left out of the null test
GetElementsNoSigTest ==
  /\ pc = "start"
  /\ IF ~payloadEl.present \/ ~pubPemEl.present
     THEN /\ body' = <<MissingPlaceholder>>
          /\ failure' = "MissingInput"
          /\ pc' = "aborted"
     ELSE /\ pc' = "decode"
          /\ UNCHANGED <<body, failure>>
  /\ UNCHANGED <<shell, floSource, awaited, publicKey, enc, ok, html, fragment,
                 pending, calls, cvars, ovars>>

GetElements ==
  /\ pc = "start"
  /\ IF ElementsMissing
     THEN /\ body' = <<MissingPlaceholder>>
          /\ failure' = "MissingInput"
          /\ pc' = "aborted"
     ELSE /\ pc' = "decode"
          /\ UNCHANGED <<body, failure>>
  /\ UNCHANGED <<shell, floSource, awaited, publicKey, enc, ok, html, fragment,
                 pending, calls, cvars, ovars>>

\* the three textContent.trim() reads, then floSource = atob(floB64).
\* Reading textContent of null throws a TypeError.
ReadAndDecode ==
  /\ pc = "decode"
  /\ IF ElementsMissing
     THEN /\ CatchHandler("TypeError")
          /\ UNCHANGED <<floSource, calls>>
     ELSE LET floB64 == Trim(payloadEl.content)
              decoded == atob(floB64)
          IN  /\ calls' = Append(calls, "atob")
              /\ IF decoded.threw
                 THEN /\ CatchHandler("MalformedInput")
                      /\ UNCHANGED floSource
                 ELSE /\ floSource' = decoded.value
                      /\ pc' = "import"
                      /\ UNCHANGED <<body, failure>>
  /\ UNCHANGED <<shell, awaited, publicKey, enc, ok, html, fragment, pending,
                 cvars, ovars>>

\* importPublicKey(pubPem): pemToArrayBuffer strips the armour and calls atob,
\* which throws on text that is not base64; crypto.subtle.importKey rejects
\* bytes that are no SPKI key.
ImportPublicKey ==
  /\ pc = "import"
  /\ LET pem == pubPemEl.content
     IN  /\ calls' = calls \o (IF pem.b64 THEN <<"atob", "importKey">> ELSE <<"atob">>)
         /\ awaited' = IF ~pem.b64 THEN Rejected("MalformedInput")
                       ELSE IF ~pem.spki THEN Rejected("MalformedInput")
                       ELSE Fulfilled(pem.key)
  /\ pc' = "awaitImport"
  /\ UNCHANGED <<shell, floSource, publicKey, enc, ok, html, fragment, pending,
                 body, failure, cvars, ovars>>

\* const publicKey = await ...
ImportSettled ==
  /\ pc = "awaitImport"
  /\ IF awaited.state = "rejected"
     THEN /\ CatchHandler(awaited.value)
          /\ UNCHANGED publicKey
     ELSE /\ publicKey' = awaited.value
          /\ pc' = "verify"
          /\ UNCHANGED <<body, failure>>
  /\ UNCHANGED <<shell, floSource, awaited, enc, ok, html, fragment, pending,
                 calls, cvars, ovars>>

\* verifySignature(publicKey, sigB64, floSource): atob of the signature, the
\* UTF-8 encoding of the decoded source, crypto.subtle.verify
verifySignature ==
  /\ pc = "verify"
  /\ LET sig == sigEl.content
         bytes == Utf8Encode(floSource)
     IN  IF ~sig.b64
         THEN /\ calls' = Append(calls, "atob")
              /\ awaited' = Rejected("MalformedInput")
              /\ UNCHANGED enc
         ELSE /\ calls' = calls \o <<"atob", "verify">>
              /\ enc' = bytes
              /\ awaited' = Fulfilled(IF SubtleVerify(publicKey, sig, bytes)
                                      THEN "true" ELSE "false")
  /\ pc' = "awaitVerify"
  /\ UNCHANGED <<shell, floSource, publicKey, ok, html, fragment, pending,
                 body, failure, cvars, ovars>>

\* const ok = await ...
VerifySettled ==
  /\ pc = "awaitVerify"
  /\ IF awaited.state = "rejected"
     THEN /\ CatchHandler(awaited.value)
          /\ ok' = "threw"
     ELSE /\ ok' = awaited.value
          /\ pc' = "check"
          /\ UNCHANGED <<body, failure>>
  /\ UNCHANGED <<shell, floSource, awaited, publicKey, enc, html, fragment,
                 pending, calls, cvars, ovars>>

\* CheckOk with the return after the integrity placeholder left out
CheckOkNoReturn ==
  /\ pc = "check"
  /\ IF ok # "true"
     THEN /\ body' = <<IntegrityPlaceholder>>
          /\ failure' = "SignatureMismatch"
     ELSE UNCHANGED <<body, failure>>
  /\ pc' = "compile"
  /\ UNCHANGED <<shell, floSource, awaited, publicKey, enc, ok, html, fragment,
                 pending, calls, cvars, ovars>>

\* if (!ok) { document.body.innerHTML = '<pre ...integrity...>'; return; }
CheckOk ==
  /\ pc = "check"
  /\ IF ok # "true"
     THEN /\ body' = <<IntegrityPlaceholder>>
          /\ failure' = "SignatureMismatch"
          /\ pc' = "aborted"
     ELSE /\ pc' = "compile"
          /\ UNCHANGED <<body, failure>>
  /\ UNCHANGED <<shell, floSource, awaited, publicKey, enc, ok, html, fragment,
                 pending, calls, cvars, ovars>>

\* const html = clientCompileFLO(floSource, context)
Compile ==
  /\ pc = "compile"
  /\ html' = clientCompileFLO12(floSource, RuntimeContext)
  /\ calls' = Append(calls, "compile")
  /\ pc' = "template"
  /\ UNCHANGED <<shell, floSource, awaited, publicKey, enc, ok, fragment,
                 pending, body, failure, cvars, ovars>>

\* temp.innerHTML = html; Array.from(temp.content.childNodes).  The parser is
\* the browser's: it yields some number of nodes, none for the empty string.
ParseTemplate ==
  /\ pc = "template"
  /\ \E k \in 0..MaxNodes :
       /\ html = Empty => k = 0
       /\ fragment' = [i \in 1..k |-> Node("fragment node", i)]
       /\ pending' = [i \in 1..k |-> Node("fragment node", i)]
  /\ pc' = "clear"
  /\ UNCHANGED <<shell, floSource, awaited, publicKey, enc, ok, html, body,
                 calls, failure, cvars, ovars>>

\* document.body.innerHTML = ''
ClearBody ==
  /\ pc = "clear"
  /\ body' = <<>>
  /\ pc' = "append"
  /\ UNCHANGED <<shell, floSource, awaited, publicKey, enc, ok, html, fragment,
                 pending, calls, failure, cvars, ovars>>

\* one turn of forEach(n => document.body.appendChild(n))
AppendChild ==
  /\ pc = "append"
  /\ pending # <<>>
  /\ body' = Append(body, Head(pending))
  /\ pending' = Tail(pending)
  /\ UNCHANGED <<pc, shell, floSource, awaited, publicKey, enc, ok, html,
                 fragment, calls, failure, cvars, ovars>>

\* the banner: createElement('div') ... document.body.appendChild(note)
AppendNote ==
  /\ pc = "append"
  /\ pending = <<>>
  /\ body' = Append(body, SuccessNote)
  /\ pc' = "rendered"
  /\ UNCHANGED <<shell, floSource, awaited, publicKey, enc, ok, html, fragment,
                 pending, calls, failure, cvars, ovars>>

\* a DOM call of the materialization throws inside the try block
DomException ==
  /\ pc \in {"template", "clear", "append"}
  /\ CatchHandler("MaterializationError")
  /\ UNCHANGED <<shell, floSource, awaited, publicKey, enc, ok, html, fragment,
                 pending, calls, cvars, ovars>>

-----------------------------------------------------------------------------
(* Specifications *)

Init ==
  /\ pc = "server" /\ doc \in Docs /\ tampers = 0
  /\ payloadEl = Null(Empty)
  /\ sigEl = Null(signString(PRIVATE_PEM, Empty))
  /\ pubPemEl = Null(PUBLIC_PEM)
  /\ floSource = Empty /\ awaited = Pending /\ publicKey = NoKey /\ enc = Empty
  /\ ok = "pending" /\ html = Empty /\ fragment = <<>> /\ pending = <<>>
  /\ body = <<>> /\ calls = <<>> /\ failure = "none"
  /\ CIdle /\ OIdle

Next ==
  \/ BuildShell
  \/ DropElement
  \/ ReplacePayload
  \/ CorruptBase64
  \/ ReplaceSignature
  \/ ReplacePem
  \/ Deliver
  \/ GetElements
  \/ ReadAndDecode
  \/ ImportPublicKey
  \/ ImportSettled
  \/ verifySignature
  \/ VerifySettled
  \/ CheckOk
  \/ Compile
  \/ ParseTemplate
  \/ ClearBody
  \/ AppendChild
  \/ AppendNote
  \/ DomException

\* the producer, the transport and the consumer's flow
Spec == Init /\ [][Next]_vars

CInit ==
  /\ csrc \in Texts(CFragments, MaxFrags)
  /\ cctx \in Contexts
  /\ cdone = {}
  /\ cout = [n \in Compilers |-> Empty]
  /\ OIdle /\ PIdle

\* the four compilers on every drawn (source, bindings)
SpecCompile == CInit /\ [][CNext]_vars

OInit ==
  /\ csrc \in Texts(OFragments, MaxOrderFrags)
  /\ cctx = NoBindings /\ cdone = {} /\ cout = [n \in Compilers |-> Empty]
  /\ ocur = csrc /\ orest = Tags /\ okept = TRUE /\ oswapped = FALSE
  /\ PIdle

\* the tag groups of the structural chain in every order
SpecOrder == OInit /\ [][ONext]_vars

-----------------------------------------------------------------------------
(* Properties *)

Range(f) == {f[i] : i \in DOMAIN f}
Terminal == {"aborted", "rendered"}
Running == pc \notin {"idle", "server", "transit"}

\* the payload element carries well-formed base64 of these bytes
PayloadBytes == atob(Trim(payloadEl.content))

\* C1: compilation and materialization happen only after verifySignature
\* returned true for the decoded source: whenever clientCompileFLO has been
\* called, or the template has been parsed, or the body holds a fragment node
\* or the success note, then the verification has settled with true, it was
\* over the UTF-8 bytes of floSource, and the verify call precedes the compile
\* call.
C1_VerifyGatesCompile ==
  ( \/ "compile" \in Range(calls)
    \/ html # Empty
    \/ fragment # <<>>
    \/ pc \in {"template", "clear", "append", "rendered"}
    \/ \E i \in 1..Len(body) : body[i] \in Range(fragment) \cup {SuccessNote} )
  => /\ ok = "true"
     /\ awaited = Fulfilled("true")
     /\ enc = Utf8Encode(floSource)
     /\ \E i, j \in 1..Len(calls) :
          i < j /\ calls[i] = "verify" /\ \A k \in j..Len(calls) : calls[k] = "compile"

C1_Witness == pc = "rendered" /\ html # Empty /\ Len(body) > 1

\* C2: a payload whose bytes differ from the signed bytes, with the signature
\* and the key as the producer sent them, is never accepted: verification
\* does not return true, clientCompileFLO is not called, and the flow ends in
\* the integrity abort with only that placeholder in the body.
C2_TamperedPayloadRejected ==
  ( /\ Running
    /\ payloadEl.present /\ ~PayloadBytes.threw
    /\ PayloadBytes.value # Utf8Encode(doc)
    /\ sigEl = Element(signString(PRIVATE_PEM, doc))
    /\ pubPemEl = Element(PUBLIC_PEM) )
  => /\ ok # "true"
     /\ "compile" \notin Range(calls)
     /\ pc \in Terminal =>
          body = <<IntegrityPlaceholder>> /\ failure = "SignatureMismatch"

\* C3: when one of the three elements is absent the flow ends with the
\* missing-input placeholder and makes no atob, importKey, verify or compile
\* call, and parses no template.
C3_MissingInputAbortsFirst ==
  (Running /\ ElementsMissing)
  => /\ calls = <<>>
     /\ html = Empty /\ fragment = <<>> /\ ok = "pending"
     /\ \/ pc = "start"
        \/ /\ pc = "aborted"
           /\ body = <<MissingPlaceholder>>
           /\ failure = "MissingInput"

C3_Witness ==
  /\ pc = "aborted" /\ ~sigEl.present /\ payloadEl.present /\ pubPemEl.present
  /\ body = <<MissingPlaceholder>>

\* C4: after a decoding failure (atob or importKey throws) the body shows the
\* same placeholder as after a signature mismatch.
C4_MalformedLooksLikeMismatch ==
  failure = "MalformedInput" => body = <<IntegrityPlaceholder>>

\* C5: when the flow has ended, the body is either the fragment's nodes
\* followed by the success note (and the signature verified), or exactly one
\* error placeholder.
C5_NoPartialRendering ==
  pc \in Terminal =>
    \/ pc = "rendered" /\ ok = "true" /\ body = fragment \o <<SuccessNote>>
    \/ pc = "aborted" /\ Len(body) = 1 /\ body[1] \in ErrorPlaceholders

\* an exception after the body was cleared and a node was appended
C5_Witness ==
  /\ pc = "aborted" /\ failure = "MaterializationError"
  /\ fragment # <<>> /\ Len(pending) < Len(fragment)

\* C8: the bytes the consumer verifies are the bytes the producer signed, so an
\* unmodified triple is accepted.
C8_UnmodifiedTripleAccepted ==
  (Running /\ tampers = 0 /\ ok # "pending")
  => ok = "true" /\ enc = Utf8Encode(doc)

\* C6: a bound value substituted for {{user}} appears literally in the output
\* of every compiler.
C6_BoundValueLiteral ==
  \A n \in cdone :
    (csrc = PlaceholderUser /\ NameUser \in DOMAIN cctx)
    => cout[n] = cctx[NameUser]

\* C7: the producer's compiler and every consumer compiler return the same
\* output for the same source and bindings.
C7_CompilersAgree == \A a, b \in cdone : cout[a] = cout[b]

\* all four ran on a source with a placeholder bound to the empty string, and
\* on one with an unbound placeholder
C7_Witness ==
  /\ cdone = Compilers
  /\ Contains(csrc, PlaceholderUser) /\ Contains(csrc, PlaceholderSpacedX)
  /\ cctx = (NameUser :> Empty)

\* C9: an opening <flo:page> without a title attribute is rewritten whenever
\* its closing tag is.
C9_BareOpeningTagRewritten ==
  \A n \in cdone :
    (Contains(csrc, FloPageBare) /\ Contains(csrc, FloPageClose)
       /\ ~Contains(cout[n], FloPageClose))
    => ~Contains(cout[n], FloPageBare)

\* C10, as stated: applying the tag groups in any order gives the output of
\* the code's order.
C10_AnyOrderSameResult ==
  orest = {} => ocur = StructuralSubstitution(csrc)

\* C10, amended: every order that leaves page, card and link where the code
\* has them relative to every other tag (the orders that permute header, nav,
\* logo and main among themselves) gives the output of the code's order.
C10_PlainReorderSameResult ==
  (orest = {} /\ okept) => ocur = StructuralSubstitution(csrc)

C10_Witness ==
  /\ orest = {} /\ okept /\ oswapped
  /\ Contains(csrc, FloNav) /\ Contains(csrc, FloHeader)
  /\ ocur # csrc

====
